---- MODULE Spec2Model ----
(***************************************************************************)
(* Model of src/sound.rs: the Sound / StopHandle playback facade.          *)
(*                                                                         *)
(* The crate is compiled for exactly one target (cfg(target_arch)); the    *)
(* variable target holds that choice and never changes.  A Sound is a      *)
(* record of its data handle, volume and loop flag.  A playback instance   *)
(* is the thing play() hands to the output subsystem (native: a rodio      *)
(* Sink with one source appended; web: a cloned media element), together   *)
(* with the state of the StopHandle that owns it.                          *)
(***************************************************************************)
EXTENDS Integers, Sequences, FiniteSets, TLC

\* ---------------------------------------------------------------- bounds
MaxSounds == 2          \* Sound values alive at once (loaded or cloned)
MaxInstances == 2       \* playback instances ever started

\* ------------------------------------------------------- program constants
DefaultVolume == 1      \* volume: 1f32
ReadyStateEnough == 4   \* (Ok(false), Ok(4))

Volumes == {1, 2}                       \* f32 gains a caller sets
Targets == {"native", "wasm32"}
Payloads == {"audio", "garbage"}        \* file contents read by load
SoundIds == 1..MaxSounds
NoSound == [data |-> "none"]

VARIABLES
    target,      \* the cfg(target_arch) the crate was built for
    sounds,      \* SoundIds -> Sound record, or NoSound
    instances,   \* sequence of playback instances, in play() order
    fut,         \* the web load future and the Audio element it polls
    result,      \* what the last call returned
    playOk       \* number of play() calls that returned Ok

vars == <<target, sounds, instances, fut, result, playOk>>

\* ------------------------------------------------------------- helpers
Ok == [res |-> "Ok", msg |-> ""]
Err(res, msg) == [res |-> res, msg |-> msg]

FreeIds == {k \in SoundIds : sounds[k] = NoSound}
LiveIds == {k \in SoundIds : sounds[k] # NoSound}
FirstFree == CHOOSE k \in FreeIds : \A j \in FreeIds : k <= j
\* A pending web load will need a slot for the Sound it resolves to.
Reserved == IF fut.state = "pending" THEN 1 ELSE 0

\* const audio = new Audio(path); audio.hasError = false;
\* A fresh element has loaded nothing, and the facade never assigns its
\* volume, so it keeps the gain a new media element has.
NewAudio == [state |-> "idle", hasError |-> FALSE, readyState |-> 0, volume |-> 1]

\* rodio Decoder::new over the bytes: Ok or DecoderError::UnrecognizedFormat
DecoderNew(bytes) == IF bytes = "audio" THEN "Ok" ELSE "UnrecognizedFormat"

\* impl From<DecoderError> for SoundError
FromDecoderError(e) == Err("UnrecognizedFormat", "")

\* impl From<IOError> for SoundError
FromIOError(msg) == Err("IOError", msg)

\* fn wasm_sound_error(error: &str)
wasm_sound_error(msg) == FromIOError(msg)

\* ------------------------------------------------------------ native load
\* load without the eager Decoder::new validation
load_unvalidated(open, read, bytes) ==
    IF ~open \/ ~read THEN [ret |-> FromIOError(""), sound |-> NoSound]
    ELSE [ret |-> Ok,
          sound |-> [data |-> bytes, volume |-> DefaultVolume,
                     loop_sound |-> FALSE]]

\* load that leaves looping switched on in the Sound it builds
load_looping(open, read, bytes) ==
    IF ~open \/ ~read THEN [ret |-> FromIOError(""), sound |-> NoSound]
    ELSE IF DecoderNew(bytes) # "Ok"
    THEN [ret |-> FromDecoderError(DecoderNew(bytes)), sound |-> NoSound]
    ELSE [ret |-> Ok,
          sound |-> [data |-> bytes, volume |-> DefaultVolume,
                     loop_sound |-> TRUE]]

\* fn load(path): open and read the file, build the Sound, validate it with
\* a decoder.  open / read say whether File::open and read_to_end succeed.
load(open, read, bytes) ==
    IF ~open THEN [ret |-> FromIOError(""), sound |-> NoSound]
    ELSE IF ~read THEN [ret |-> FromIOError(""), sound |-> NoSound]
    ELSE LET sound == [data |-> bytes, volume |-> DefaultVolume,
                       loop_sound |-> FALSE]
         IN IF DecoderNew(bytes) # "Ok"
            THEN [ret |-> FromDecoderError(DecoderNew(bytes)), sound |-> NoSound]
            ELSE [ret |-> Ok, sound |-> sound]

\* Sound::load on the native target: future::result(load(path))
LoadNative(open, read, bytes) ==
    /\ target = "native"
    /\ FreeIds # {}
    /\ LET r == load(open, read, bytes)
       IN /\ result' = r.ret
          /\ sounds' = IF r.ret.res = "Ok"
                       THEN [sounds EXCEPT ![FirstFree] = r.sound]
                       ELSE sounds
    /\ UNCHANGED <<target, instances, fut, playOk>>

\* ---------------------------------------------------------------- Sound
\* #[derive(Clone)] on Sound
Clone(s) ==
    /\ sounds[s] # NoSound
    /\ Cardinality(FreeIds) > Reserved
    /\ sounds' = [sounds EXCEPT ![FirstFree] = sounds[s]]
    /\ UNCHANGED <<target, instances, fut, result, playOk>>

\* pub fn volume(&self)
volume(s) == sounds[s].volume

\* set_volume that also reaches into the instances already started
set_volume_retroactive(s, v) ==
    /\ sounds[s] # NoSound
    /\ sounds' = [sounds EXCEPT ![s].volume = v]
    /\ instances' = [i \in 1..Len(instances) |->
                        [instances[i] EXCEPT !.gain = v]]
    /\ UNCHANGED <<target, fut, result, playOk>>

\* pub fn set_volume(&mut self, volume: f32)
set_volume(s, v) ==
    /\ sounds[s] # NoSound
    /\ sounds' = [sounds EXCEPT ![s].volume = v]
    /\ UNCHANGED <<target, instances, fut, result, playOk>>

\* pub fn set_loop_sound(&mut self, loop_sound: bool)
set_loop_sound(s, b) ==
    /\ sounds[s] # NoSound
    /\ sounds' = [sounds EXCEPT ![s].loop_sound = b]
    /\ UNCHANGED <<target, instances, fut, result, playOk>>

\* ----------------------------------------------------------------- play
\* An instance: gain and repeat are what the output subsystem was given,
\* status is what it is doing, pos is the media position (0 = start,
\* 1 = the end; a native sink exposes none and keeps 0), handle is
\* the StopHandle that owns it: "held", "consumed" by stop(), or "dropped".
NewInstance(gain, repeat) ==
    [gain |-> gain, repeat |-> repeat, status |-> "playing", pos |-> 0,
     handle |-> "held"]

\* fn get_source(&self): Decoder::new(Cursor::new(self.clone()))?
\*                           .amplify(self.volume).convert_samples()
get_source(sound) ==
    IF DecoderNew(sound.data) # "Ok"
    THEN [ret |-> Err("UnrecognizedFormat", ""), gain |-> 0]
    ELSE [ret |-> Ok, gain |-> sound.volume]

\* play that builds the sink without looking for an output device
play_native_unchecked(sound, device) ==
    [ret |-> Ok, inst |-> <<NewInstance(sound.volume, sound.loop_sound)>>]

\* pub fn play(&self), cfg(not(target_arch = "wasm32")).  device is what
\* rodio::default_output_device() returns: TRUE for Some(device).
play_native(sound, device) ==
    IF ~device
    THEN [ret |-> Err("NoOutputAvailable", ""), inst |-> <<>>]
    ELSE LET src == get_source(sound)
         IN IF src.ret.res # "Ok"
            THEN [ret |-> src.ret, inst |-> <<>>]
            ELSE [ret |-> Ok,
                  inst |-> <<NewInstance(src.gain, sound.loop_sound)>>]

\* pub fn play(&self), cfg(target_arch = "wasm32"): snd = sound.cloneNode();
\* snd.loop = loop_sound; snd.play().  The clone is a fresh element node:
\* nothing in the facade writes its volume.
play_wasm(sound) ==
    [ret |-> Ok,
     inst |-> <<NewInstance(NewAudio.volume, sound.loop_sound)>>]

play(sound, device) ==
    IF target = "native" THEN play_native(sound, device) ELSE play_wasm(sound)

Play(s, device) ==
    /\ sounds[s] # NoSound
    /\ target = "wasm32" => device
    /\ LET r == play(sounds[s], device)
       IN /\ Len(instances) + Len(r.inst) <= MaxInstances
          /\ instances' = instances \o r.inst
          /\ result' = r.ret
          /\ playOk' = IF r.ret.res = "Ok" THEN playOk + 1 ELSE playOk
    /\ UNCHANGED <<target, sounds, fut>>

\* ----------------------------------------------------------- StopHandle
\* stop that pauses the web element without rewinding it
stop_without_rewind(inst) ==
    IF target = "native"
    THEN [inst EXCEPT !.status = "stopped", !.handle = "consumed"]
    ELSE [inst EXCEPT !.status = "paused", !.handle = "consumed"]

\* pub fn stop(self): native self.sink.stop(); web pause() and
\* currentTime = 0.  Taking self by value consumes the handle.
stop(inst) ==
    IF target = "native"
    THEN [inst EXCEPT !.status = "stopped", !.handle = "consumed"]
    ELSE [inst EXCEPT !.status = "paused", !.pos = 0, !.handle = "consumed"]

\* stop that silences every instance, as one shared sink would
StopAll(i) ==
    /\ i \in 1..Len(instances)
    /\ instances[i].handle = "held"
    /\ instances' = [j \in 1..Len(instances) |->
                        IF j = i THEN stop(instances[j])
                        ELSE [instances[j] EXCEPT !.status =
                                 IF target = "native" THEN "stopped" ELSE "paused"]]
    /\ result' = Ok
    /\ UNCHANGED <<target, sounds, fut, playOk>>

Stop(i) ==
    /\ i \in 1..Len(instances)
    /\ instances[i].handle = "held"
    /\ instances' = [instances EXCEPT ![i] = stop(instances[i])]
    /\ result' = Ok
    /\ UNCHANGED <<target, sounds, fut, playOk>>

\* A StopHandle going out of scope without stop().  The struct has no Drop
\* impl of its own, so its field is dropped: on native that is the rodio
\* Sink, which was not detach()ed and therefore stops its sounds when
\* dropped; on the web it is a stdweb Value, a reference whose release
\* leaves the playing element alone.
drop_handle(inst) ==
    IF target = "native"
    THEN [inst EXCEPT !.status = "stopped", !.handle = "dropped"]
    ELSE [inst EXCEPT !.handle = "dropped"]

Drop(i) ==
    /\ i \in 1..Len(instances)
    /\ instances[i].handle = "held"
    /\ instances' = [instances EXCEPT ![i] = drop_handle(instances[i])]
    /\ UNCHANGED <<target, sounds, fut, result, playOk>>

\* The output subsystem plays on: a source that is not repeated runs out
\* (sink.append(source)), a repeated one starts over
\* (source.repeat_infinite() / snd.loop = true).
advance(inst) ==
    IF inst.repeat THEN inst
    ELSE IF target = "native" THEN [inst EXCEPT !.status = "ended"]
    ELSE [inst EXCEPT !.status = "ended", !.pos = 1]

Advance(i) ==
    /\ i \in 1..Len(instances)
    /\ instances[i].status = "playing"
    /\ instances' = [instances EXCEPT ![i] = advance(instances[i])]
    /\ UNCHANGED <<target, sounds, fut, result, playOk>>

\* --------------------------------------------------------------- web load
\* js!( return sound.hasError ).try_into() / js!( return sound.readyState )
\* .try_into(): the conversion of what the element reports, which can fail.
TryInto(converts, value) ==
    IF converts THEN [ok |-> TRUE, val |-> value] ELSE [ok |-> FALSE, val |-> value]

\* poll_fn with the readiness arm matching before the error arm
poll_fn_ready_first(error, ready) ==
    IF ready.ok /\ ready.val = ReadyStateEnough
    THEN Ok
    ELSE IF error.ok /\ error.val
    THEN wasm_sound_error("Sound file not found or could not load")
    ELSE IF error.ok /\ ~error.val /\ ready.ok
    THEN Err("NotReady", "")
    ELSE IF ~error.ok
    THEN wasm_sound_error("Checking sound network state failed")
    ELSE wasm_sound_error("Checking sound ready state failed")

\* poll_fn that waits for a readiness level the element never reports
poll_fn_never_ready(error, ready) ==
    IF error.ok /\ error.val
    THEN wasm_sound_error("Sound file not found or could not load")
    ELSE IF error.ok /\ ~error.val /\ ready.ok
    THEN Err("NotReady", "")
    ELSE IF ~error.ok
    THEN wasm_sound_error("Checking sound network state failed")
    ELSE wasm_sound_error("Checking sound ready state failed")

\* The closure given to future::poll_fn: match (error, ready), arms in order.
poll_fn(error, ready) ==
    IF error.ok /\ ~error.val /\ ready.ok /\ ready.val = ReadyStateEnough
    THEN Ok
    ELSE IF error.ok /\ error.val
    THEN wasm_sound_error("Sound file not found or could not load")
    ELSE IF error.ok /\ ~error.val /\ ready.ok
    THEN Err("NotReady", "")
    ELSE IF ~error.ok
    THEN wasm_sound_error("Checking sound network state failed")
    ELSE wasm_sound_error("Checking sound ready state failed")

\* Ok(Async::Ready(Sound { sound: sound.clone(), volume: 1f32,
\*                        loop_sound: false }))
ReadySound == [data |-> "element", volume |-> DefaultVolume, loop_sound |-> FALSE]

\* Sound::load on the web target, up to the first poll: the js! block that
\* creates the element and installs the onerror handler.
WebLoadStart ==
    /\ target = "wasm32"
    /\ fut.state = "idle"
    /\ FreeIds # {}
    /\ fut' = [NewAudio EXCEPT !.state = "pending"]
    /\ UNCHANGED <<target, sounds, instances, result, playOk>>

\* The browser makes progress on the media resource.
ReadyStateChange ==
    /\ fut.state = "pending"
    /\ fut.readyState < ReadyStateEnough
    /\ fut' = [fut EXCEPT !.readyState = @ + 1]
    /\ UNCHANGED <<target, sounds, instances, result, playOk>>

\* audio.onerror = (error) => audio.hasError = true
OnError ==
    /\ fut.state = "pending"
    /\ ~fut.hasError
    /\ fut' = [fut EXCEPT !.hasError = TRUE]
    /\ UNCHANGED <<target, sounds, instances, result, playOk>>

\* One poll of the load future.  errConverts / readyConverts say whether the
\* two try_into() calls succeed.  Ready yields the Sound and ends the
\* future, an error ends it, NotReady leaves it to be polled again.
WebPoll(errConverts, readyConverts) ==
    /\ fut.state = "pending"
    /\ LET r == poll_fn(TryInto(errConverts, fut.hasError),
                        TryInto(readyConverts, fut.readyState))
       IN /\ result' = r
          /\ sounds' = IF r.res = "Ok"
                       THEN [sounds EXCEPT ![FirstFree] = ReadySound]
                       ELSE sounds
          /\ fut' = IF r.res = "NotReady" THEN fut ELSE NewAudio
    /\ UNCHANGED <<target, instances, playOk>>

Init ==
    /\ target \in Targets
    /\ sounds = [k \in SoundIds |-> NoSound]
    /\ instances = <<>>
    /\ fut = NewAudio
    /\ result = [res |-> "none", msg |-> ""]
    /\ playOk = 0

Next ==
    \/ \E open \in BOOLEAN, read \in BOOLEAN, bytes \in Payloads :
          LoadNative(open, read, bytes)
    \/ \E s \in SoundIds : Clone(s)
    \/ \E s \in SoundIds, v \in Volumes : set_volume(s, v)
    \/ \E s \in SoundIds, b \in BOOLEAN : set_loop_sound(s, b)
    \/ \E s \in SoundIds, device \in BOOLEAN : Play(s, device)
    \/ \E i \in 1..MaxInstances : Stop(i)
    \/ \E i \in 1..MaxInstances : Drop(i)
    \/ \E i \in 1..MaxInstances : Advance(i)
    \/ WebLoadStart
    \/ ReadyStateChange
    \/ OnError
    \/ \E errConverts \in BOOLEAN, readyConverts \in BOOLEAN :
          WebPoll(errConverts, readyConverts)

Spec == Init /\ [][Next]_vars

\* The loading side of the facade on its own: the load protocol and the
\* operations on the Sounds it yields.
NextLoad ==
    \/ \E open \in BOOLEAN, read \in BOOLEAN, bytes \in Payloads :
          LoadNative(open, read, bytes)
    \/ \E s \in SoundIds : Clone(s)
    \/ \E s \in SoundIds, v \in Volumes : set_volume(s, v)
    \/ \E s \in SoundIds, b \in BOOLEAN : set_loop_sound(s, b)
    \/ WebLoadStart
    \/ ReadyStateChange
    \/ OnError
    \/ \E errConverts \in BOOLEAN, readyConverts \in BOOLEAN :
          WebPoll(errConverts, readyConverts)

LoadSpec == Init /\ [][NextLoad]_vars

\* The playing side on its own.  It starts where a load has just returned
\* Ok: the caller holds the one Sound that load built.
InitLoaded ==
    /\ target \in Targets
    /\ sounds = [k \in SoundIds |->
                   IF k # 1 THEN NoSound
                   ELSE IF target = "native"
                        THEN load(TRUE, TRUE, "audio").sound
                        ELSE ReadySound]
    /\ instances = <<>>
    /\ fut = NewAudio
    /\ result = Ok
    /\ playOk = 0

NextPlay ==
    \/ \E s \in SoundIds : Clone(s)
    \/ \E s \in SoundIds, v \in Volumes : set_volume(s, v)
    \/ \E s \in SoundIds, b \in BOOLEAN : set_loop_sound(s, b)
    \/ \E s \in SoundIds, device \in BOOLEAN : Play(s, device)
    \/ \E i \in 1..MaxInstances : Stop(i)
    \/ \E i \in 1..MaxInstances : Drop(i)
    \/ \E i \in 1..MaxInstances : Advance(i)

PlaySpec == InitLoaded /\ [][NextPlay]_vars

\* Whoever drives the load future polls it again after NotReady (the
\* closure registers no wake-up of its own).  Only polls whose conversions
\* succeed are guaranteed; a failing conversion may happen, never must.
Repoll == WF_vars(WebPoll(TRUE, TRUE))

LiveSpec == Init /\ [][NextLoad]_vars /\ Repoll

\* ------------------------------------------------------------------ claims
Instances == 1..Len(instances)
NotFoundMsg == "Sound file not found or could not load"
CheckFailedMsgs == {"Checking sound network state failed",
                    "Checking sound ready state failed"}
Pending == fut.state = "pending"

\* C1: no step, set_volume and set_loop_sound on any Sound or clone
\* included, changes the gain or the loop setting of an instance that
\* play() has already started.
C1_InstanceParametersFrozen ==
    [][\A i \in Instances :
          /\ instances'[i].gain = instances[i].gain
          /\ instances'[i].repeat = instances[i].repeat]_vars

\* An instance is playing while every Sound has since been given another
\* volume and another loop flag than the instance started with.
C1_Witness ==
    /\ target = "native"
    /\ LiveIds # {}
    /\ \E i \in Instances :
          /\ instances[i].status = "playing"
          /\ \A s \in LiveIds :
                /\ volume(s) # instances[i].gain
                /\ sounds[s].loop_sound # instances[i].repeat

\* C2: on both targets the instance a successful play() creates has the
\* gain the Sound's volume field holds at the call.
C2_PlayAtCurrentVolume ==
    [][\A s \in SoundIds :
          (result'.res = "Ok" /\ sounds' = sounds /\ Play(s, TRUE))
             => instances'[Len(instances')].gain = volume(s)]_vars

\* C3: every successful play() adds one new playing instance with its own
\* held handle and leaves the earlier ones as they were; stop() on one
\* handle changes no other instance.
C3_IndependentInstances ==
    [][/\ \A s \in SoundIds, d \in BOOLEAN :
             (result'.res = "Ok" /\ sounds' = sounds /\ Play(s, d))
                => /\ Len(instances') = Len(instances) + 1
                   /\ instances'[Len(instances')].status = "playing"
                   /\ instances'[Len(instances')].handle = "held"
                   /\ \A j \in Instances : instances'[j] = instances[j]
       /\ \A i \in 1..MaxInstances :
             (sounds' = sounds /\ playOk' = playOk /\ Stop(i))
                => /\ Len(instances') = Len(instances)
                   /\ \A j \in Instances \ {i} :
                         instances'[j] = instances[j]]_vars

\* One instance has been stopped through its handle while another, started
\* from the same or another Sound, is still playing.
C3_Witness ==
    \E i, j \in Instances :
        /\ i # j
        /\ instances[i].handle = "consumed"
        /\ instances[j].status = "playing"
        /\ instances[j].handle = "held"

\* C4: an instance stops playing only through stop() on its handle or by
\* running out when it does not loop; discarding the handle halts nothing.
C4_OnlyStopHalts ==
    [][\A i \in Instances :
          (instances[i].status = "playing" /\ instances'[i].status # "playing")
             => \/ instances'[i].handle = "consumed"
                \/ instances'[i].status = "ended" /\ ~instances[i].repeat]_vars

\* C5: stop() returns Ok, leaves the instance silent (native: sink stopped;
\* web: paused at position zero) and uses up the handle, which it needs
\* held: no instance is stopped twice.
C5_StopHalts ==
    [][/\ \A i \in 1..MaxInstances :
          (sounds' = sounds /\ playOk' = playOk /\ Stop(i))
             => /\ result' = Ok
                /\ instances[i].handle = "held"
                /\ instances'[i].handle = "consumed"
                /\ target = "native" => instances'[i].status = "stopped"
                /\ target = "wasm32" => /\ instances'[i].status = "paused"
                                        /\ instances'[i].pos = 0
       /\ \A i \in Instances :
             instances[i].handle = "consumed" => instances'[i] = instances[i]]_vars

\* A web instance that had run to its end has been stopped and rewound.
C5_Witness ==
    /\ target = "wasm32"
    /\ result = Ok
    /\ \E i \in Instances :
          /\ instances[i].handle = "consumed"
          /\ instances[i].status = "paused"
          /\ ~instances[i].repeat
          /\ instances[i].pos = 0

\* A load step of either target.
LoadStep ==
    \/ \E open \in BOOLEAN, read \in BOOLEAN, bytes \in Payloads :
          LoadNative(open, read, bytes)
    \/ \E errConverts \in BOOLEAN, readyConverts \in BOOLEAN :
          WebPoll(errConverts, readyConverts)

\* C6: a load that succeeds, on either target, yields exactly one new Sound,
\* with volume 1.0 and looping off.
C6_LoadDefaults ==
    [][(LoadStep /\ result'.res = "Ok")
          => \E k \in SoundIds :
                /\ sounds[k] = NoSound
                /\ sounds'[k] # NoSound
                /\ sounds'[k].volume = DefaultVolume
                /\ ~sounds'[k].loop_sound
                /\ \A j \in SoundIds \ {k} : sounds'[j] = sounds[j]]_vars

\* A second load has just succeeded after the first Sound was made louder
\* and set to loop: the new Sound still has the defaults.
C6_Witness ==
    /\ result = Ok
    /\ instances = <<>>
    /\ sounds[1] # NoSound /\ sounds[1].volume # DefaultVolume
    /\ sounds[1].loop_sound
    /\ sounds[2] # NoSound /\ sounds[2].volume = DefaultVolume
    /\ ~sounds[2].loop_sound

\* C7 as stated: error flag set -> 'not found' failure; clear and
\* readyState 4 -> success; clear and another readyState -> pending; a
\* failed read of either flag -> 'checking ... state failed' failure.
C7_AsStated ==
    [][\A e \in BOOLEAN, r \in BOOLEAN :
          WebPoll(e, r)
             => /\ (e /\ fut.hasError)
                      => /\ result' = Err("IOError", NotFoundMsg)
                         /\ sounds' = sounds
                /\ (e /\ ~fut.hasError /\ r /\ fut.readyState = ReadyStateEnough)
                      => result' = Ok
                /\ (e /\ ~fut.hasError /\ r /\ fut.readyState # ReadyStateEnough)
                      => /\ result'.res = "NotReady"
                         /\ fut' = fut /\ sounds' = sounds
                /\ (~e \/ ~r)
                      => /\ result'.res = "IOError"
                         /\ result'.msg \in CheckFailedMsgs
                         /\ sounds' = sounds]_vars

\* C7, amended: as stated, except that a failed read of readyState gives
\* the 'checking ... state failed' error only when the error flag was read
\* as clear; with the error flag set the poll fails with 'not found'
\* whether or not readyState could be read.  A poll succeeds only with the
\* error flag clear and readyState 4.
C7_Classification ==
    [][\A e \in BOOLEAN, r \in BOOLEAN :
          WebPoll(e, r)
             => /\ (e /\ fut.hasError)
                      => /\ result' = Err("IOError", NotFoundMsg)
                         /\ sounds' = sounds
                /\ (e /\ ~fut.hasError /\ r /\ fut.readyState = ReadyStateEnough)
                      => result' = Ok
                /\ (e /\ ~fut.hasError /\ r /\ fut.readyState # ReadyStateEnough)
                      => /\ result'.res = "NotReady"
                         /\ fut' = fut /\ sounds' = sounds
                /\ (~e \/ (~fut.hasError /\ ~r))
                      => /\ result'.res = "IOError"
                         /\ result'.msg \in CheckFailedMsgs
                         /\ sounds' = sounds
                /\ result'.res = "Ok"
                      => ~fut.hasError /\ fut.readyState = ReadyStateEnough]_vars

\* A poll has failed with 'not found' and no Sound came of it.
C7_Witness ==
    /\ result = Err("IOError", NotFoundMsg)
    /\ fut.state = "idle"
    /\ LiveIds = {}

\* C8: native load returns Ok exactly when the file opens, reads and
\* decodes; an open or read failure is an IOError, undecodable bytes are
\* UnrecognizedFormat and yield no Sound, so every Sound there is (loaded
\* or cloned) decodes, and get_source() in play() cannot fail on it.
C8_NativeLoadOutcome ==
    /\ [](\A s \in LiveIds :
            target = "native" => get_source(sounds[s]).ret = Ok)
    /\ [][\A open \in BOOLEAN, read \in BOOLEAN, bytes \in Payloads :
             LoadNative(open, read, bytes)
                => /\ result'.res = "Ok"
                         <=> (open /\ read /\ DecoderNew(bytes) = "Ok")
                   /\ (~open \/ ~read) => result'.res = "IOError"
                   /\ (open /\ read /\ DecoderNew(bytes) # "Ok")
                         => result'.res = "UnrecognizedFormat"
                   /\ result'.res # "Ok" => sounds' = sounds]_vars

\* A native load has just been refused for its format, after an earlier
\* load succeeded.
C8_Witness ==
    /\ target = "native"
    /\ result.res = "UnrecognizedFormat"
    /\ LiveIds # {}

\* C9: native play() without an output device returns NoOutputAvailable
\* and creates nothing; there are never more instances (each with the one
\* StopHandle made for it) than play() calls that returned Ok.
C9_NoDeviceNoHandle ==
    /\ [](Len(instances) <= playOk)
    /\ [][\A s \in SoundIds :
             (target = "native" /\ sounds' = sounds /\ Play(s, FALSE))
                => /\ result' = Err("NoOutputAvailable", "")
                   /\ instances' = instances
                   /\ playOk' = playOk]_vars

\* play() has just failed for want of a device, with an earlier instance
\* still there.
C9_Witness ==
    /\ target = "native"
    /\ result.res = "NoOutputAvailable"
    /\ Len(instances) = 1
    /\ playOk = 1

====
